---- MODULE Spec2Model ----
(***************************************************************************)
(* State-machine model of the two text-to-speech hooks of the repository,  *)
(* useSpeechifyTTS (src/src/useSpeechifyTTS.ts) and useHiggsAudio          *)
(* (src/src/useHiggsAudio.ts), together with the backend services they     *)
(* call: SpeechifyService (src/unnamed/part_000) and HiggsAudioService     *)
(* (src/USAGE.md).                                                         *)
(*                                                                         *)
(* One hook instance is modelled.  `st` is the React state of the          *)
(* instance (the value the next render will show), `rd` is the last render *)
(* (the values captured by the closures that render created, among them    *)
(* generateSpeech).  A state setter writes `st`; the action Render copies  *)
(* those into `rd` and runs the auto-generate effect when one of its       *)
(* dependencies changed.  Every generateSpeech() call that passes its      *)
(* guard is an entry of `attempts`; an entry moves through the awaits of   *)
(* the async function, one action per resumption.                          *)
(***************************************************************************)
EXTENDS Integers, Sequences, FiniteSets, TLC

VARIABLES hook, apiKey, autoGenerate, mounted, serviceRef, st, rd,
          attempts, mountProbe, skipped, torn, svc

\* The hook instance and its generations.
hookVars == <<hook, apiKey, autoGenerate, mounted, serviceRef, st, rd,
              attempts, mountProbe, skipped, torn>>

vars == <<hookVars, svc>>

(***************************************************************************)
(* Bounds of the model.                                                    *)
(***************************************************************************)
MaxAttempts == 2

(***************************************************************************)
(* Values.                                                                 *)
(***************************************************************************)
\* JavaScript null for the two nullable state fields (error, handle).
Null == <<>>

Hooks == {"speechify", "higgs"}
Texts == {"", "Hello", "Bye"}

\* The text prop over the life of an instance: the consumer's successive
\* edits, from no text to a first and then a second script.
TextEdits == {<<"", "Hello">>, <<"", "Bye">>, <<"Hello", "Bye">>}
ApiKeys == {"", "key"}

\* HTTP statuses a backend may answer with, with their reason phrases.  Only
\* the cloud backend authenticates, so only it answers 401.
Statuses(h) == IF h = "speechify" THEN {200, 401, 500} ELSE {200, 500}
StatusText(status) ==
  CASE status = 200 -> "OK"
    [] status = 401 -> "Unauthorized"
    [] status = 500 -> "Internal Server Error"

\* Response bodies: text of an error response, bytes of an audio response.
ErrorBodies == {"model overloaded"}
\* The cloud backend answers with MPEG audio, the local one with WAV.
AudioBodies(h) ==
  IF h = "speechify" THEN {<<255, 251, 144>>, <<73, 68, 51, 4>>} ELSE {<<82, 73>>}
Durations == {2}

\* response.ok of the Fetch API: the status is in the range 200-299.
ResponseOk(status) == status >= 200 /\ status <= 299

(***************************************************************************)
(* The backend services.                                                   *)
(***************************************************************************)
\* A value thrown or rejected with: whether it is an instance of Error, and
\* its message.
Thrown(isError, message) == [isError |-> isError, message |-> message]

\* fetch() rejecting (unreachable host, aborted body): a TypeError.
TransportError == Thrown(TRUE, <<"Failed to fetch">>)

\* An error for a non-ok response that drops the response body.
SpeechifyApiError_NoBody(status, errorText) ==
  Thrown(TRUE, <<"Speechify API error: ", ToString(status), " ",
                 StatusText(status)>>)

\* SpeechifyService.textToSpeech, the error built for a non-ok response.
SpeechifyApiError(status, errorText) ==
  Thrown(TRUE, <<"Speechify API error: ", ToString(status), " ",
                 StatusText(status), " - ", errorText>>)

\* HiggsAudioService.textToSpeech, the error built for a non-ok response.
HiggsApiError(status, errorText) ==
  Thrown(TRUE, <<"Higgs Audio API error: ", ToString(status), " ",
                 StatusText(status), " - ", errorText>>)

\* The outcomes of one synthesis HTTP request: an audio response, an error
\* response with a text body, or a transport failure.
TtsOutcomes(h) ==
  {[kind |-> "response", status |-> s, text |-> "", bytes |-> b] :
     s \in {x \in Statuses(h) : ResponseOk(x)}, b \in AudioBodies(h)}
  \cup {[kind |-> "response", status |-> s, text |-> t, bytes |-> <<>>] :
     s \in {x \in Statuses(h) : ~ResponseOk(x)}, t \in ErrorBodies}
  \cup {[kind |-> "transport", status |-> 0, text |-> "", bytes |-> <<>>]}

\* textToSpeech: TRUE when the call returns a Blob, FALSE when it throws.
TextToSpeechReturns(o) == o.kind = "response" /\ ResponseOk(o.status)

\* textToSpeech: the value thrown (the catch block logs and re-throws).
TextToSpeechThrows(h, o) ==
  IF o.kind = "transport" THEN TransportError
  ELSE IF h = "speechify" THEN SpeechifyApiError(o.status, o.text)
  ELSE HiggsApiError(o.status, o.text)

\* A textToSpeech that sends the request a second time after a failure.
TextToSpeechFetches_RetriesOnError(o) == IF TextToSpeechReturns(o) THEN 1 ELSE 2

\* textToSpeech: the number of fetch() calls a call has made when it
\* settles with outcome o.  The function has one fetch, and its catch
\* block logs and re-throws without calling fetch again.
TextToSpeechFetches(o) == 1

\* textToSpeech: the Blob returned, response.blob().
TextToSpeechBlob(h, o) ==
  [type |-> IF h = "speechify" THEN "audio/mpeg" ELSE "audio/wav",
   bytes |-> o.bytes]

\* The outcomes of GET /health: a status, or 0 for a transport failure.
HealthOutcomes == Statuses("higgs") \cup {0}

\* A probe that reports the server available whenever it answered.
CheckHealth_AnyResponse(o) == o # 0

\* HiggsAudioService.checkHealth: response.ok, or false when fetch rejects.
CheckHealth(o) == IF o = 0 THEN FALSE ELSE ResponseOk(o)

\* The sampling knobs of a synthesis request of the local backend, by
\* their names in the service's config and options objects.
Knobs == {"temperature", "topP", "topK", "maxNewTokens"}

\* JavaScript undefined, and numbers by their literals.
Undefined == "undefined"

\* HiggsAudioService.constructor, the built-in defaults.
Default(k) ==
  CASE k = "temperature" -> "0.3"
    [] k = "topP" -> "0.95"
    [] k = "topK" -> "50"
    [] k = "maxNewTokens" -> "1024"

\* Values a consumer passes as hook options, other than the defaults.
OptionValue(k) ==
  CASE k = "temperature" -> "0.7"
    [] k = "topP" -> "0.9"
    [] k = "topK" -> "40"
    [] k = "maxNewTokens" -> "512"

\* Values a deployment sets in HIGGS_CONFIG, other than the defaults.
ConfigValue(k) ==
  CASE k = "temperature" -> "0.5"
    [] k = "topP" -> "0.8"
    [] k = "topK" -> "20"
    [] k = "maxNewTokens" -> "2048"

\* obj.k: undefined when the object has no such property.
Get(obj, k) == IF k \in DOMAIN obj THEN obj[k] ELSE Undefined

\* a ?? b.
Coalesce(a, b) == IF a = Undefined THEN b ELSE a

\* { ...base, ...obj }: every own property of obj, an undefined one
\* included, replaces the property of base.
Spread(base, obj) ==
  [k \in DOMAIN base \cup DOMAIN obj |->
     IF k \in DOMAIN obj THEN obj[k] ELSE base[k]]

\* HiggsAudioService.constructor: this.config, the defaults filled in with
\* ?? and then the config object spread over them.
ConstructorConfig(config) ==
  Spread([k \in Knobs |-> Coalesce(Get(config, k), Default(k))], config)

\* HiggsAudioService.textToSpeech: the knobs of requestBody.
RequestBody(options, config) ==
  [k \in Knobs |-> Coalesce(Get(options, k), Get(config, k))]

\* JSON.stringify(requestBody): a property whose value is undefined is
\* left out of the body.
JsonStringify(body) ==
  [k \in {x \in DOMAIN body : body[x] # Undefined} |-> body[k]]

\* useHiggsAudio, the mount effect: the object passed to the constructor
\* has all four properties, each with the value HIGGS_CONFIG has for it.
HookServiceConfig(higgsConfig) == [k \in Knobs |-> Get(higgsConfig, k)]

\* useHiggsAudio.generateSpeech: the options passed to textToSpeech, all
\* four properties with the values of the hook's options.
HookCallOptions(hookOptions) == [k \in Knobs |-> Get(hookOptions, k)]

\* The HIGGS_CONFIG objects and the hook options: any of the knobs set.
HiggsConfigs == {[k \in ks |-> ConfigValue(k)] : ks \in SUBSET Knobs}
HookOptions == {[k \in ks |-> OptionValue(k)] : ks \in SUBSET Knobs}

\* No service object is under consideration.
NoService ==
  [stage |-> "args", higgsConfig |-> <<>>, hookOptions |-> <<>>,
   config |-> <<>>, body |-> <<>>]

(***************************************************************************)
(* FileReader.readAsDataURL: the Blob as a data: URL, its bytes in base64. *)
(***************************************************************************)
Base64Alphabet ==
  <<
    "A", "B", "C", "D", "E", "F", "G", "H", "I", "J", "K", "L", "M", "N", "O", "P",
    "Q", "R", "S", "T", "U", "V", "W", "X", "Y", "Z", "a", "b", "c", "d", "e", "f",
    "g", "h", "i", "j", "k", "l", "m", "n", "o", "p", "q", "r", "s", "t", "u", "v",
    "w", "x", "y", "z", "0", "1", "2", "3", "4", "5", "6", "7", "8", "9", "+", "/"
  >>

Base64Char(sextet) == Base64Alphabet[sextet + 1]

RECURSIVE Base64(_)
Base64(bytes) ==
  IF Len(bytes) = 0 THEN <<>>
  ELSE IF Len(bytes) = 1 THEN
    <<Base64Char(bytes[1] \div 4), Base64Char((bytes[1] % 4) * 16), "=", "=">>
  ELSE IF Len(bytes) = 2 THEN
    <<Base64Char(bytes[1] \div 4),
      Base64Char((bytes[1] % 4) * 16 + bytes[2] \div 16),
      Base64Char((bytes[2] % 16) * 4), "=">>
  ELSE
    <<Base64Char(bytes[1] \div 4),
      Base64Char((bytes[1] % 4) * 16 + bytes[2] \div 16),
      Base64Char((bytes[2] % 16) * 4 + bytes[3] \div 64),
      Base64Char(bytes[3] % 64)>>
    \o Base64(SubSeq(bytes, 4, Len(bytes)))

\* A conversion that encodes only the first three-byte group of the Blob.
ReadAsDataURL_FirstGroup(blob) ==
  <<"data:", blob.type, ";base64,">>
  \o Base64(SubSeq(blob.bytes, 1, IF Len(blob.bytes) < 3 THEN Len(blob.bytes) ELSE 3))

ReadAsDataURL(blob) == <<"data:", blob.type, ";base64,">> \o Base64(blob.bytes)

\* What a consumer of the handle (an <audio> element, fetch) gets back from
\* the data: URL: the media type and the base64 payload decoded to bytes.
Base64Value(char) ==
  (CHOOSE k \in 1..Len(Base64Alphabet) : Base64Alphabet[k] = char) - 1

RECURSIVE Base64Decode(_)
Base64Decode(chars) ==
  IF Len(chars) < 4 THEN <<>>
  ELSE LET a == Base64Value(chars[1])
           b == Base64Value(chars[2])
       IN IF chars[3] = "=" THEN <<a * 4 + b \div 16>>
          ELSE LET c == Base64Value(chars[3])
               IN IF chars[4] = "="
                  THEN <<a * 4 + b \div 16, (b % 16) * 16 + c \div 4>>
                  ELSE <<a * 4 + b \div 16, (b % 16) * 16 + c \div 4,
                         (c % 4) * 64 + Base64Value(chars[4])>>
                       \o Base64Decode(SubSeq(chars, 5, Len(chars)))

DataURLType(url) == url[2]
DataURLBytes(url) == Base64Decode(SubSeq(url, 4, Len(url)))

(***************************************************************************)
(* The hooks.                                                              *)
(***************************************************************************)
\* The useState cells of a hook instance at their initial values.
InitialState ==
  [narrationAudioPath |-> Null, isGenerating |-> FALSE, speechDuration |-> 0,
   error |-> Null, isServerAvailable |-> FALSE]

\* What the closures of a render capture (generateSpeech and the
\* auto-generate effect): the text prop and three of the state cells.
\* error and speechDuration are read by no closure of the hook.
Rendered(s, text) ==
  [text |-> text, narrationAudioPath |-> s.narrationAudioPath,
   isGenerating |-> s.isGenerating, isServerAvailable |-> s.isServerAvailable]

\* A guard that does not look at the service reference.
GuardPasses_IgnoresService(ref, c) == ~c.isGenerating /\ c.text # ""

\* A guard that does not look at the text.
GuardPasses_IgnoresText(ref, c) == ref /\ ~c.isGenerating

\* generateSpeech, its first line: the call goes on only when the service
\* exists, the closure's isGenerating is false and the closure's text is
\* non-empty.
GuardPasses(ref, c) == ref /\ ~c.isGenerating /\ c.text # ""

\* An entry that raises the loading flag and keeps the earlier error.
EnterInFlight_KeepsError(s) == [s EXCEPT !.isGenerating = TRUE]

\* generateSpeech, the two setters before the try block.
EnterInFlight(s) == [s EXCEPT !.isGenerating = TRUE, !.error = Null]

\* A catch block's message that is empty whatever was thrown.
ErrorMessage_Blank(err) == Null

\* generateSpeech, the catch block's message.
ErrorMessage(err) == IF err.isError THEN err.message ELSE <<"Unknown error">>

\* A catch block that swallows the error without recording it.
CatchBlock_Swallows(h, s, err) == s

\* generateSpeech, the catch block.
CatchBlock(h, s, err) ==
  IF h = "higgs"
  THEN [s EXCEPT !.error = ErrorMessage(err), !.isServerAvailable = FALSE]
  ELSE [s EXCEPT !.error = ErrorMessage(err)]

\* A finally block that leaves the loading flag up.
FinallyBlock_KeepsFlag(s) == s

\* A flag that is lowered only on the failure path.
FinallyBlock_OnlyAfterError(s) ==
  IF s.error # Null THEN [s EXCEPT !.isGenerating = FALSE] ELSE s

\* generateSpeech, the finally block.
FinallyBlock(s) == [s EXCEPT !.isGenerating = FALSE]

\* A setter that writes whatever instance its caller belonged to.
SetState_Leaks(orphan, old, new) == new

\* A useState setter called by a generation: it writes the state of the
\* instance that created it, and is a no-op once that instance is
\* unmounted (orphan); the state of another instance is never touched.
SetState(orphan, old, new) == IF orphan THEN old ELSE new

\* generateSpeech: how the promise of a call settles when its body threw
\* err inside the try block: the catch block handles it and nothing is left
\* to reject with.
PromiseAfterThrow(err) == "fulfilled"

\* useHiggsAudio.generateSpeech, the error thrown when the probe is false.
ServerUnavailableError ==
  Thrown(TRUE, <<"Higgs Audio server is ", "not available",
                 ". Please ensure the local server is running.">>)

\* A test that lets the call go on whatever the probe returned.
HealthGate_Open(isAvailable) == TRUE

\* A test that also lets the call go on when the isServerAvailable cell,
\* set by an earlier probe, is true.
HealthGate_ReusesState(isAvailable) == isAvailable \/ st.isServerAvailable

\* useHiggsAudio.generateSpeech, the test on the probe's result: the call
\* goes on to textToSpeech only when it is true.
HealthGate(isAvailable) == isAvailable

\* A condition that does not look at the handle.
AutoGenerateCond_IgnoresHandle(h, ref, c) ==
  /\ autoGenerate
  /\ ref
  /\ c.text # ""
  /\ ~c.isGenerating
  /\ (h = "higgs" => c.isServerAvailable)

\* A condition that does not look at the autoGenerate option.
AutoGenerateCond_IgnoresOption(h, ref, c) ==
  /\ ref
  /\ c.text # ""
  /\ c.narrationAudioPath = Null
  /\ ~c.isGenerating
  /\ (h = "higgs" => c.isServerAvailable)

\* The condition of the auto-generate effect.
AutoGenerateCond(h, ref, c) ==
  /\ autoGenerate
  /\ ref
  /\ c.text # ""
  /\ c.narrationAudioPath = Null
  /\ ~c.isGenerating
  /\ (h = "higgs" => c.isServerAvailable)

\* The auto-generate effect runs after a render when one of its
\* dependencies differs from the previous render's.  generateSpeech is a
\* dependency, and is a new function when text or isGenerating changed.
DepsChanged(h, old, new) ==
  \/ old.text # new.text
  \/ old.narrationAudioPath # new.narrationAudioPath
  \/ old.isGenerating # new.isGenerating
  \/ (h = "higgs" /\ old.isServerAvailable # new.isServerAvailable)

\* A generateSpeech() call that passed its guard, up to its first await.
\* auto and fromFailed record how the call came about: made by the
\* auto-generate effect, and made while the instance was settled in Failed
\* (error set, isGenerating false, no earlier call still running).
\* probe is what checkHealth() returned to the call and healthStatus the
\* outcome of its GET /health.  fetches counts the synthesis HTTP requests
\* its textToSpeech call has sent.  orphan: the instance that made the call has
\* been unmounted since.
NewAttempt(h, c, s, as, auto) ==
  [pc |-> IF h = "higgs" THEN "health" ELSE "tts",
   auto |-> auto,
   fromFailed |-> /\ s.error # Null
                  /\ ~s.isGenerating
                  /\ \A j \in 1..Len(as) : as[j].pc = "done" \/ as[j].orphan,
   text |-> c.text,
   probe |-> "none",
   healthStatus |-> 0,
   ttsIssued |-> h = "speechify",
   fetches |-> IF h = "speechify" THEN 1 ELSE 0,
   status |-> 0,
   errorText |-> "",
   blob |-> [type |-> "", bytes |-> <<>>],
   failure |-> "none",
   promise |-> "pending",
   published |-> FALSE,
   orphan |-> FALSE]

TypeOK ==
  /\ hook \in Hooks
  /\ apiKey \in ApiKeys
  /\ autoGenerate \in BOOLEAN
  /\ mounted \in BOOLEAN
  /\ serviceRef \in BOOLEAN
  /\ st.isGenerating \in BOOLEAN
  /\ st.isServerAvailable \in BOOLEAN
  /\ st.speechDuration \in Durations \cup {0}
  /\ rd.text \in Texts
  /\ Len(attempts) <= MaxAttempts
  /\ mountProbe \in {"none", "pending", "done"}
  /\ skipped \in BOOLEAN
  /\ torn \in BOOLEAN
  /\ svc.stage \in {"args", "constructed", "sent"}

(***************************************************************************)
(* Initial state: the first render of a hook instance, before its effects. *)
(***************************************************************************)
Init ==
  /\ hook \in Hooks
  /\ apiKey \in (IF hook = "speechify" THEN ApiKeys ELSE {""})
  /\ autoGenerate \in BOOLEAN
  /\ mounted = FALSE
  /\ serviceRef = FALSE
  /\ st = InitialState
  /\ \E t \in Texts : rd = Rendered(InitialState, t)
  /\ attempts = <<>>
  /\ mountProbe = "none"
  /\ skipped = FALSE
  /\ torn = FALSE
  /\ svc = NoService

(***************************************************************************)
(* Operations.                                                             *)
(***************************************************************************)
\* One generateSpeech() call made with the closure c while the state is s:
\* the guard, and when it passes the synchronous part up to the first
\* await (the health probe of useHiggsAudio, the synthesis request of
\* useSpeechifyTTS).
CallGenerateSpeech(h, ref, c, s, as, auto) ==
  IF GuardPasses(ref, c)
  THEN [st |-> EnterInFlight(s), attempts |-> Append(as, NewAttempt(h, c, s, as, auto))]
  ELSE [st |-> s, attempts |-> as]

\* The error set by the mount effect of useSpeechifyTTS without an API key.
ApiKeyNotConfigured == <<"Speechify API key not configured">>

\* The mount effect's service construction: useSpeechifyTTS builds the
\* service only with a non-empty API key, useHiggsAudio always.
ServiceCreated(h, key) == h = "higgs" \/ key # ""

\* The first commit of an instance: its first render, with every useState
\* cell at its initial value, and its two effects in source order: the
\* mount effect (service, AudioContext, and for useHiggsAudio the first
\* health probe), then the auto-generate effect.
Mount ==
  /\ ~mounted
  /\ LET ref == ServiceCreated(hook, apiKey)
         first == Rendered(InitialState, rd.text)
         s1 == IF ref THEN InitialState
               ELSE [InitialState EXCEPT !.error = ApiKeyNotConfigured]
         r == IF AutoGenerateCond(hook, ref, first)
              THEN CallGenerateSpeech(hook, ref, first, s1, attempts, TRUE)
              ELSE [st |-> s1, attempts |-> attempts]
     IN /\ Len(r.attempts) <= MaxAttempts
        /\ serviceRef' = ref
        /\ rd' = first
        /\ st' = r.st
        /\ attempts' = r.attempts
  /\ mounted' = TRUE
  /\ mountProbe' = IF hook = "higgs" THEN "pending" ELSE "none"
  /\ UNCHANGED svc
  /\ UNCHANGED <<hook, apiKey, autoGenerate, skipped, torn>>

\* The instance is unmounted: the cleanup of the mount effect closes the
\* AudioContext.  Its state and closures are gone (what is left is what the
\* next instance will start from), the .then of its first health probe and
\* the generations it has in flight go on with setters that no longer
\* write anything.
Unmount ==
  /\ mounted
  /\ ~torn
  /\ mounted' = FALSE
  /\ torn' = TRUE
  /\ st' = InitialState
  /\ rd' = Rendered(InitialState, rd.text)
  /\ serviceRef' = FALSE
  /\ attempts' = [i \in 1..Len(attempts) |-> [attempts[i] EXCEPT !.orphan = TRUE]]
  /\ mountProbe' = "none"
  /\ UNCHANGED svc
  /\ UNCHANGED <<hook, apiKey, autoGenerate, skipped>>

\* A re-render, with text prop t: the closures see the current state, and
\* the auto-generate effect runs when its dependencies changed.
Render(t) ==
  /\ mounted
  /\ Rendered(st, t) # rd
  /\ t = rd.text \/ <<rd.text, t>> \in TextEdits
  /\ LET new == Rendered(st, t)
         run == DepsChanged(hook, rd, new) /\ AutoGenerateCond(hook, serviceRef, new)
         r == IF run
              THEN CallGenerateSpeech(hook, serviceRef, new, st, attempts, TRUE)
              ELSE [st |-> st, attempts |-> attempts]
     IN /\ Len(r.attempts) <= MaxAttempts
        /\ rd' = new
        /\ st' = r.st
        /\ attempts' = r.attempts
  /\ UNCHANGED svc
  /\ UNCHANGED <<hook, apiKey, autoGenerate, mounted, serviceRef, mountProbe, skipped,
                 torn>>

\* The consumer calls the generateSpeech of the last render.  skipped
\* records that some call returned at the guard.
ManualGenerate ==
  /\ mounted
  /\ LET r == CallGenerateSpeech(hook, serviceRef, rd, st, attempts, FALSE)
     IN /\ Len(r.attempts) <= MaxAttempts
        /\ st' = r.st
        /\ attempts' = r.attempts
  /\ skipped' = (skipped \/ ~GuardPasses(serviceRef, rd))
  /\ UNCHANGED svc
  /\ UNCHANGED <<hook, apiKey, autoGenerate, mounted, serviceRef, rd, mountProbe,
                 torn>>

\* useHiggsAudio, mount effect: checkHealth().then(setIsServerAvailable).
MountProbeResolve(o) ==
  /\ mountProbe = "pending"
  /\ mountProbe' = "done"
  /\ st' = [st EXCEPT !.isServerAvailable = CheckHealth(o)]
  /\ UNCHANGED svc
  /\ UNCHANGED <<hook, apiKey, autoGenerate, mounted, serviceRef, rd, attempts,
                 skipped, torn>>

\* generateSpeech leaving through catch and finally with the thrown err.
FailAttempt(i, err, why, fields) ==
  /\ st' = SetState(attempts[i].orphan, st, FinallyBlock(CatchBlock(hook, st, err)))
  /\ attempts' = [attempts EXCEPT ![i] =
       [fields EXCEPT !.pc = "done", !.failure = why,
                      !.promise = PromiseAfterThrow(err)]]

\* useHiggsAudio.generateSpeech resumes after await checkHealth().
HealthResolve(i, o) ==
  /\ i \in 1..Len(attempts)
  /\ attempts[i].pc = "health"
  /\ LET probe == IF CheckHealth(o) THEN "true" ELSE "false"
     IN IF HealthGate(CheckHealth(o))
        THEN /\ st' = SetState(attempts[i].orphan, st,
                               [st EXCEPT !.isServerAvailable = TRUE])
             /\ attempts' = [attempts EXCEPT ![i].pc = "tts", ![i].probe = probe,
                                             ![i].healthStatus = o,
                                             ![i].ttsIssued = TRUE,
                                             ![i].fetches = 1]
        ELSE FailAttempt(i, ServerUnavailableError, "health",
                         [attempts[i] EXCEPT !.probe = probe,
                                             !.healthStatus = o])
  /\ UNCHANGED svc
  /\ UNCHANGED <<hook, apiKey, autoGenerate, mounted, serviceRef, rd, mountProbe,
                 skipped, torn>>

\* generateSpeech resumes after await textToSpeech(): with a Blob, whose
\* arrayBuffer() is then handed to decodeAudioData, or with the error
\* textToSpeech threw.
TtsResolve(i, o) ==
  /\ i \in 1..Len(attempts)
  /\ attempts[i].pc = "tts"
  /\ IF TextToSpeechReturns(o)
     THEN /\ attempts' = [attempts EXCEPT ![i].pc = "decode",
                                          ![i].fetches = TextToSpeechFetches(o),
                                          ![i].status = o.status,
                                          ![i].blob = TextToSpeechBlob(hook, o)]
          /\ st' = st
     ELSE FailAttempt(i, TextToSpeechThrows(hook, o),
                      IF o.kind = "transport" THEN "transport" ELSE "http",
                      [attempts[i] EXCEPT !.fetches = TextToSpeechFetches(o),
                                          !.status = o.status,
                                          !.errorText = o.text])
  /\ UNCHANGED svc
  /\ UNCHANGED <<hook, apiKey, autoGenerate, mounted, serviceRef, rd, mountProbe,
                 skipped, torn>>

\* The outcomes of decodeAudioData: an AudioBuffer with a duration, or a
\* rejection with a DOMException (EncodingError).
DecodeOutcomes ==
  {[ok |-> TRUE, duration |-> d, err |-> Thrown(TRUE, Null)] : d \in Durations}
  \cup {[ok |-> FALSE, duration |-> 0,
          err |-> Thrown(TRUE, <<"Unable to decode audio data">>)]}

\* generateSpeech resumes after await decodeAudioData(): sets the
\* duration, starts the FileReader and leaves through finally; or leaves
\* through catch and finally.
DecodeResolve(i, o) ==
  /\ i \in 1..Len(attempts)
  /\ attempts[i].pc = "decode"
  /\ IF o.ok
     THEN /\ st' = SetState(attempts[i].orphan, st,
                            FinallyBlock([st EXCEPT !.speechDuration = o.duration]))
          /\ attempts' = [attempts EXCEPT ![i].pc = "reading",
                                          ![i].promise = "fulfilled"]
     ELSE FailAttempt(i, o.err, "decode", attempts[i])
  /\ UNCHANGED svc
  /\ UNCHANGED <<hook, apiKey, autoGenerate, mounted, serviceRef, rd, mountProbe,
                 skipped, torn>>

\* reader.onloadend: reader.result is the data URL, or null when the read
\* failed.
ReaderLoadEnd(i, ok) ==
  /\ i \in 1..Len(attempts)
  /\ attempts[i].pc = "reading"
  /\ st' = SetState(attempts[i].orphan, st,
                    [st EXCEPT !.narrationAudioPath =
                       IF ok THEN ReadAsDataURL(attempts[i].blob) ELSE Null])
  /\ attempts' = [attempts EXCEPT ![i].pc = "done", ![i].published = ok,
                                  ![i].failure = IF ok THEN "none" ELSE "convert"]
  /\ UNCHANGED svc
  /\ UNCHANGED <<hook, apiKey, autoGenerate, mounted, serviceRef, rd, mountProbe,
                 skipped, torn>>

Next ==
  \/ Mount
  \/ \E t \in Texts : Render(t)
  \/ ManualGenerate
  \/ \E o \in HealthOutcomes : MountProbeResolve(o)
  \/ \E i \in 1..MaxAttempts, o \in HealthOutcomes : HealthResolve(i, o)
  \/ \E i \in 1..MaxAttempts, o \in TtsOutcomes(hook) : TtsResolve(i, o)
  \/ \E i \in 1..MaxAttempts, o \in DecodeOutcomes : DecodeResolve(i, o)
  \/ \E i \in 1..MaxAttempts, ok \in BOOLEAN : ReaderLoadEnd(i, ok)

Spec == Init /\ [][Next]_vars

\* The life of a component with a script to narrate that is unmounted and
\* mounted again with the same props: a second instance of the hook, while
\* calls of the first may still be in flight.
InitTeardown == Init /\ rd.text = "Hello"

NextTeardown ==
  \/ Mount
  \/ Unmount
  \/ Render(rd.text)
  \/ ManualGenerate
  \/ \E o \in HealthOutcomes : MountProbeResolve(o)
  \/ \E i \in 1..MaxAttempts, o \in HealthOutcomes : HealthResolve(i, o)
  \/ \E i \in 1..MaxAttempts, o \in TtsOutcomes(hook) : TtsResolve(i, o)
  \/ \E i \in 1..MaxAttempts, o \in DecodeOutcomes : DecodeResolve(i, o)
  \/ \E i \in 1..MaxAttempts, ok \in BOOLEAN : ReaderLoadEnd(i, ok)

SpecTeardown == InitTeardown /\ [][NextTeardown]_vars

\* The life of a mounted component with a script to narrate whose awaited
\* steps all settle in the end: every health probe, synthesis request and
\* decode (with the read of the Blob's bytes before it) that is outstanding
\* is eventually resolved or rejected.
\* One outcome of each kind of a synthesis request: audio, an error
\* response, a transport failure.
LiveTtsOutcomes(h) ==
  {o \in TtsOutcomes(h) : o.status \in {0, 200, 500} /\ Len(o.bytes) < 4}

\* One outcome of each kind of a health probe: the server answers 200, or
\* it is not running and the fetch is rejected.
LiveHealthOutcomes == {o \in HealthOutcomes : o \in {0, 200}}

NextLive ==
  \/ Mount
  \/ Render(rd.text)
  \/ ManualGenerate
  \/ \E o \in LiveHealthOutcomes : MountProbeResolve(o)
  \/ \E i \in 1..MaxAttempts, o \in LiveHealthOutcomes : HealthResolve(i, o)
  \/ \E i \in 1..MaxAttempts, o \in LiveTtsOutcomes(hook) : TtsResolve(i, o)
  \/ \E i \in 1..MaxAttempts, o \in DecodeOutcomes : DecodeResolve(i, o)
  \/ \E i \in 1..MaxAttempts, ok \in BOOLEAN : ReaderLoadEnd(i, ok)

SpecLive ==
  /\ InitTeardown
  /\ [][NextLive]_vars
  /\ WF_vars(\E i \in 1..MaxAttempts, o \in LiveHealthOutcomes : HealthResolve(i, o))
  /\ WF_vars(\E i \in 1..MaxAttempts, o \in LiveTtsOutcomes(hook) : TtsResolve(i, o))
  /\ WF_vars(\E i \in 1..MaxAttempts, o \in DecodeOutcomes : DecodeResolve(i, o))

\* The sampling knobs of one useHiggsAudio instance from its HIGGS_CONFIG
\* and hook options to the body of its synthesis request.
InitKnobs ==
  /\ hook = "higgs"
  /\ apiKey = ""
  /\ autoGenerate = FALSE
  /\ mounted = FALSE
  /\ serviceRef = FALSE
  /\ st = InitialState
  /\ rd = Rendered(InitialState, "Hello")
  /\ attempts = <<>>
  /\ mountProbe = "none"
  /\ skipped = FALSE
  /\ torn = FALSE
  /\ \E hc \in HiggsConfigs, ho \in HookOptions :
       svc = [NoService EXCEPT !.higgsConfig = hc, !.hookOptions = ho]

\* The mount effect: new HiggsAudioService({...}).
ConstructService ==
  /\ svc.stage = "args"
  /\ svc' = [svc EXCEPT !.stage = "constructed",
                         !.config = ConstructorConfig(HookServiceConfig(svc.higgsConfig))]
  /\ UNCHANGED hookVars

\* generateSpeech: textToSpeech(text, {...}) builds and sends the body.
SendRequest ==
  /\ svc.stage = "constructed"
  /\ svc' = [svc EXCEPT !.stage = "sent",
                         !.body = JsonStringify(RequestBody(HookCallOptions(svc.hookOptions),
                                                            svc.config))]
  /\ UNCHANGED hookVars

NextKnobs == ConstructService \/ SendRequest

SpecKnobs == InitKnobs /\ [][NextKnobs]_vars

(***************************************************************************)
(* Properties.                                                             *)
(***************************************************************************)
Started == 1..Len(attempts)

\* The generation state as a consumer derives it from a hook's fields.
Ready(s) ==
  /\ ~s.isGenerating
  /\ s.error = Null
  /\ s.narrationAudioPath # Null
  /\ s.speechDuration > 0

Failed(s) == s.error # Null /\ ~s.isGenerating

\* The last render shows the current state.
RenderCurrent == rd = Rendered(st, rd.text)

\* A step in which the consumer's generateSpeech() call returned at the
\* guard, or started a generation.
ConsumerCalls ==
  \/ ~skipped /\ skipped'
  \/ Len(attempts') = Len(attempts) + 1 /\ ~attempts'[Len(attempts')].auto

\* The generation state a consumer observes: InFlight while isGenerating,
\* else Failed with an error, else Ready with a handle, else Idle (where
\* the demo component shows its 'Generate Speech' button).
Phase(s) ==
  IF s.isGenerating THEN "InFlight"
  ELSE IF s.error # Null THEN "Failed"
  ELSE IF s.narrationAudioPath # Null THEN "Ready"
  ELSE "Idle"

Contains(message, part) == \E k \in 1..Len(message) : message[k] = part

\* C1: in every reachable state at most one textToSpeech request of the
\* hook instance is outstanding, also when generateSpeech() is called twice
\* before the component has re-rendered.
C1_AtMostOneOutstanding ==
  Cardinality({i \in Started : attempts[i].pc = "tts"}) <= 1

\* C2: no automatic retry: after a generation for a text has failed, a
\* textToSpeech request for that text is never issued by a call that the
\* auto-generate effect made while the instance was in Failed (error set,
\* isGenerating false); only the consumer's own call retries.
C2_NoAutomaticRetry ==
  \A i, j \in Started :
    (/\ i < j
     /\ attempts[i].failure # "none"
     /\ attempts[j].text = attempts[i].text
     /\ attempts[j].auto /\ attempts[j].ttsIssued)
    => ~attempts[j].fromFailed

\* C3: while every step of every generation succeeds, the auto-generate
\* effect issues at most one textToSpeech request for a text.
C3_AutoTriggerOnce ==
  (\A i \in Started : attempts[i].failure = "none") =>
    \A i, j \in Started :
      (/\ i < j
       /\ attempts[i].auto /\ attempts[i].ttsIssued
       /\ attempts[j].auto /\ attempts[j].ttsIssued)
      => attempts[i].text # attempts[j].text

\* C4: for a non-empty text, once the backend request, the decode and the
\* blob-to-data-URL conversion of every generation have succeeded, the hook
\* is in Ready: isGenerating false, error null, a handle and a duration > 0.
C4_SuccessEndsReady ==
  (/\ Started # {}
   /\ \A i \in Started :
        /\ attempts[i].text # ""
        /\ attempts[i].pc = "done"
        /\ attempts[i].failure = "none")
  => Ready(st)

C4_Witness ==
  /\ Started # {}
  /\ \A i \in Started : attempts[i].pc = "done" /\ attempts[i].failure = "none"
  /\ Ready(st)
  /\ RenderCurrent

\* C5: a synthesis response with a status >= 400 makes textToSpeech throw
\* and the attempt end in Failed: error set to a message that contains the
\* status code and the response body text, isGenerating false, and no handle
\* published by the attempt.
C5_HttpErrorFails ==
  [][/\ \A i \in Started :
          (/\ attempts[i].pc = "tts"
           /\ attempts'[i].pc # "tts"
           /\ attempts'[i].status >= 400)
          => /\ attempts'[i].failure = "http"
             /\ Failed(st')
             /\ Contains(st'.error, ToString(attempts'[i].status))
             /\ Contains(st'.error, attempts'[i].errorText)
             /\ st'.narrationAudioPath = st.narrationAudioPath
     /\ \A i \in 1..Len(attempts') :
          attempts'[i].failure = "http"
          => attempts'[i].pc = "done" /\ ~attempts'[i].published]_vars

C5_Witness ==
  \E i \in Started :
    /\ attempts[i].failure = "http"
    /\ attempts[i].status = 500
    /\ Failed(st)
    /\ Contains(st.error, "500")
    /\ Contains(st.error, "model overloaded")

\* C6: in useHiggsAudio a generateSpeech() call whose health probe returned
\* false never issues a textToSpeech request and ends in Failed with an
\* error message that mentions "not available".
C6_UnavailableNeverSynthesizes ==
  [][/\ \A i \in Started :
          (attempts[i].pc = "health" /\ attempts'[i].probe = "false")
          => Failed(st') /\ Contains(st'.error, "not available")
     /\ \A i \in 1..Len(attempts') :
          attempts'[i].probe = "false"
          => /\ ~attempts'[i].ttsIssued
             /\ attempts'[i].pc = "done"
             /\ attempts'[i].failure = "health"]_vars

C6_Witness ==
  \E i \in Started :
    /\ hook = "higgs"
    /\ attempts[i].probe = "false"
    /\ ~attempts[i].ttsIssued
    /\ Failed(st)
    /\ Contains(st.error, "not available")

\* C7: no partial results: in every reachable state the handle and the
\* duration are both set (handle non-null, duration > 0) or both unset.
C7_NoPartialResults ==
  (st.narrationAudioPath = Null) <=> (st.speechDuration = 0)

\* C8: useSpeechifyTTS without an API key: the mount effect sets the error
\* 'Speechify API key not configured', no generation is ever started, and
\* no generateSpeech() call changes isGenerating, error, the handle or the
\* duration.
C8_NoKeyNoRequest ==
  (hook = "speechify" /\ apiKey = "") =>
    /\ attempts = <<>>
    /\ mounted => st = [InitialState EXCEPT !.error = ApiKeyNotConfigured]

C8_Witness ==
  /\ hook = "speechify"
  /\ apiKey = ""
  /\ autoGenerate
  /\ rd.text # ""
  /\ st.error = ApiKeyNotConfigured
  /\ skipped

\* C9: every failure inside a generation attempt (probe negative, transport
\* failure, non-success status, decode failure) is caught in generateSpeech:
\* its promise never rejects, and when the attempt finishes error is
\* non-null and isGenerating is false.
C9_FailuresCaught ==
  [][/\ \A i \in 1..Len(attempts') : attempts'[i].promise # "rejected"
     /\ \A i \in Started :
          (/\ attempts[i].pc # "done"
           /\ attempts'[i].failure \in {"health", "transport", "http", "decode"})
          => /\ attempts'[i].promise = "fulfilled"
             /\ st'.error # Null
             /\ ~st'.isGenerating]_vars

C9_Witness ==
  \E i \in Started :
    /\ attempts[i].failure \in {"health", "transport", "http", "decode"}
    /\ attempts[i].promise = "fulfilled"
    /\ Failed(st)
    /\ RenderCurrent

\* C10: the instance stays usable after Failed: when the consumer sees
\* Failed (error set, isGenerating false, service initialised, text
\* non-empty), its generateSpeech() call enters InFlight with the error
\* cleared and issues a new backend request; and when that generation and
\* any started after it have succeeded, the hook is in Ready, error null.
C10_UsableAfterFailed ==
  [][/\ (/\ ConsumerCalls
         /\ serviceRef
         /\ rd.text # ""
         /\ Failed(st)
         /\ RenderCurrent)
        => /\ Len(attempts') = Len(attempts) + 1
           /\ st'.isGenerating
           /\ st'.error = Null
           /\ attempts'[Len(attempts')].pc = (IF hook = "higgs" THEN "health" ELSE "tts")
           /\ attempts'[Len(attempts')].text = rd.text
     /\ \A k \in 1..Len(attempts') :
          (/\ ~attempts'[k].auto
           /\ attempts'[k].fromFailed
           /\ \A j \in k..Len(attempts') :
                attempts'[j].pc = "done" /\ attempts'[j].failure = "none")
          => Ready(st') /\ attempts'[k].ttsIssued]_vars

C10_Witness ==
  \E k \in Started :
    /\ ~attempts[k].auto
    /\ attempts[k].fromFailed
    /\ attempts[k].pc = "done"
    /\ attempts[k].failure = "none"
    /\ Ready(st)
    /\ RenderCurrent

\* C11: HiggsAudioService.checkHealth() never throws: the call that awaited
\* it always resumed with a boolean, true exactly when GET /health answered
\* with a 2xx status, false for every other status and for a transport
\* failure.
C11_CheckHealthTotal ==
  \A i \in Started :
    /\ attempts[i].pc # "health" =>
         (hook = "higgs" => attempts[i].probe \in {"true", "false"})
    /\ attempts[i].probe = "true" <=>
         (attempts[i].healthStatus >= 200 /\ attempts[i].healthStatus <= 299)
    /\ attempts[i].probe = "false" =>
         (attempts[i].healthStatus = 0 \/ attempts[i].healthStatus >= 300)

C11_Witness ==
  \E i, j \in Started :
    /\ attempts[i].probe = "false" /\ attempts[i].healthStatus = 0
    /\ attempts[j].probe = "true" /\ attempts[j].healthStatus = 200

\* C12: round trip: in the step where a generation publishes its handle,
\* the handle is a data: URL of the media type of the Blob that generation
\* got from its backend, and decoding its base64 payload yields byte for
\* byte the bytes of that Blob.
C12_HandleRoundTrip ==
  [][\A i \in Started :
       (attempts[i].pc = "reading" /\ attempts'[i].published)
       => /\ st'.narrationAudioPath # Null
          /\ DataURLType(st'.narrationAudioPath) = attempts[i].blob.type
          /\ DataURLBytes(st'.narrationAudioPath) = attempts[i].blob.bytes]_vars

\* Two generations that got different bytes, the handle being the later
\* one's.
C12_Witness ==
  \E i, j \in Started :
    /\ attempts[i].published /\ attempts[j].published
    /\ attempts[i].blob.bytes = <<255, 251, 144>>
    /\ attempts[j].blob.bytes = <<73, 68, 51, 4>>
    /\ st.narrationAudioPath # Null
    /\ DataURLBytes(st.narrationAudioPath) = <<73, 68, 51, 4>>

C14_NoAutoWhenDisabled ==
  ~autoGenerate => \A i \in Started : ~attempts[i].auto

\* autoGenerate is false, a first generation has failed and the component
\* has re-rendered with a text, a service and no handle; the only requests
\* are those of the consumer's two calls.
C14_Witness ==
  /\ ~autoGenerate
  /\ mounted
  /\ RenderCurrent
  /\ Failed(st)
  /\ st.narrationAudioPath = Null
  /\ Len(attempts) = 2
  /\ \A i \in Started : attempts[i].ttsIssued /\ ~attempts[i].auto

\* C15: once narrationAudioPath is non-null it is non-null in every later
\* state: no re-trigger, failed attempt or failed blob-to-data-URL
\* conversion sets it back to null.
C15_HandleStays ==
  [][st.narrationAudioPath # Null => st'.narrationAudioPath # Null]_vars

\* C16: speechDuration is populated only in Ready: in Idle, in InFlight
\* (isGenerating true) and in Failed (error non-null) it is 0, also during
\* and after a generation re-triggered after a success.
C16_DurationOnlyInReady ==
  Phase(st) \in {"Idle", "InFlight", "Failed"} => st.speechDuration = 0

\* C17: every generateSpeech() call that passes the guard clears the prior
\* error and the prior handle: right after the entry error is null and
\* narrationAudioPath is null.
C17_EntryClearsErrorAndHandle ==
  [][Len(attempts') = Len(attempts) + 1
     => st'.error = Null /\ st'.narrationAudioPath = Null]_vars

\* C18: generateSpeech() called in Ready is a no-op: no health probe, no
\* textToSpeech request, and every state field keeps its value.
C18_ReadyCallIsNoOp ==
  [][(ConsumerCalls /\ RenderCurrent /\ Ready(st))
     => st' = st /\ attempts' = attempts]_vars

\* C19: a generateSpeech() call of the consumer made while the closure's
\* text is empty or the closure's isGenerating is true returns without
\* effect: no generation (so no request) is started, no state field
\* changes, and no promise rejects.
C19_GuardedCallIsNoOp ==
  [][(ConsumerCalls /\ (rd.text = "" \/ rd.isGenerating))
     => /\ st' = st
        /\ attempts' = attempts
        /\ \A i \in Started : attempts'[i].promise # "rejected"]_vars

\* The service exists, a generation is running, the last render's closure
\* has isGenerating true and a call of the consumer returned at the guard.
C19_Witness ==
  /\ skipped
  /\ serviceRef
  /\ rd.text # ""
  /\ rd.isGenerating
  /\ Len(attempts) = 1
  /\ attempts[1].pc \in {"health", "tts", "decode"}

\* C20: after the mount the observable generation state only moves
\* Idle -> InFlight, InFlight -> Ready, InFlight -> Failed and
\* Failed -> InFlight; in particular a successful generation never passes
\* through the state with isGenerating false, error null and a null handle.
C20_PhaseMoves ==
  [][(mounted /\ Phase(st') # Phase(st))
     => <<Phase(st), Phase(st')>> \in
          {<<"Idle", "InFlight">>, <<"InFlight", "Ready">>,
           <<"InFlight", "Failed">>, <<"Failed", "InFlight">>}]_vars

\* C21: when the conversion of the audio Blob into a data URL fails (the
\* FileReader ends with an error and a null result) the attempt ends in
\* Failed: error is set to a message, and the attempt publishes no handle.
C21_ConversionFailureFails ==
  [][\A i \in Started :
       (attempts[i].pc = "reading" /\ attempts'[i].failure = "convert")
       => /\ st'.error # Null
          /\ ~attempts'[i].published]_vars

\* C22: when decodeAudioData rejects, the attempt ends in Failed: error is
\* set and isGenerating is false in the same step, speechDuration keeps the
\* value it had, and the attempt is over without ever reaching the
\* data-URL conversion, so it publishes no handle.
C22_DecodeFailureFails ==
  [][/\ \A i \in Started :
          (attempts[i].pc = "decode" /\ attempts'[i].failure = "decode")
          => /\ Failed(st')
             /\ st'.speechDuration = st.speechDuration
             /\ st'.narrationAudioPath = st.narrationAudioPath
     /\ \A i \in 1..Len(attempts') :
          attempts'[i].failure = "decode"
          => attempts'[i].pc = "done" /\ ~attempts'[i].published]_vars

\* A first generation has published, a second one has failed in its
\* decode: Failed, with the first generation's duration and handle.
C22_Witness ==
  \E i, j \in Started :
    /\ attempts[i].published
    /\ attempts[j].failure = "decode"
    /\ Failed(st)
    /\ st.error = <<"Unable to decode audio data">>
    /\ st.speechDuration = 2
    /\ st.narrationAudioPath # Null

\* C23: in useHiggsAudio a generateSpeech() call issues its textToSpeech
\* request only after its own checkHealth() probe returned true, whatever
\* the mount probe or an earlier call found; in useSpeechifyTTS no probe is
\* made at all and a call goes straight to textToSpeech.
C23_ProbeBeforeEveryRequest ==
  /\ hook = "higgs" =>
       \A i \in Started :
         /\ attempts[i].ttsIssued => attempts[i].probe = "true"
         /\ attempts[i].pc \in {"tts", "decode", "reading"} => attempts[i].ttsIssued
         /\ attempts[i].status # 0 => attempts[i].ttsIssued
  /\ hook = "speechify" =>
       /\ mountProbe = "none"
       /\ \A i \in Started :
            /\ attempts[i].probe = "none"
            /\ attempts[i].pc # "health"
            /\ attempts[i].ttsIssued

\* An auto-triggered call, made when isServerAvailable was true, whose own
\* probe returned false and which issued no request; and a call whose own
\* probe returned true and which did.
C23_Witness ==
  /\ hook = "higgs"
  /\ \E i, j \in Started :
       /\ attempts[i].auto
       /\ attempts[i].probe = "false"
       /\ ~attempts[i].ttsIssued
       /\ attempts[j].probe = "true"
       /\ attempts[j].ttsIssued

\* C24: in useHiggsAudio the auto-generate effect starts a generation only
\* in a state where isServerAvailable is true, and never while the health
\* probe of the mount effect has not resolved yet.
C24_AutoTriggerNeedsLiveness ==
  [][(/\ hook = "higgs"
      /\ Len(attempts') = Len(attempts) + 1
      /\ attempts'[Len(attempts')].auto)
     => st.isServerAvailable /\ mountProbe # "pending"]_vars

\* C25: a re-render with another text while the hook is in Ready resets
\* nothing: every state field, so the handle and the duration of the
\* earlier text, keeps its value, and the auto-generate effect starts no
\* generation for the new text.
C25_TextChangeInReadyKeepsState ==
  [][(rd'.text # rd.text /\ Ready(st))
     => st' = st /\ attempts' = attempts]_vars

\* With autoGenerate on, the text was changed from "Hello" to "Bye" in
\* Ready: the handle and the duration are those generated for "Hello".
C25_Witness ==
  /\ autoGenerate
  /\ rd.text = "Bye"
  /\ RenderCurrent
  /\ Ready(st)
  /\ Started # {}
  /\ \A i \in Started :
       attempts[i].text = "Hello" /\ attempts[i].pc = "done" /\ attempts[i].published

\* C26: each sampling knob sent to the local backend is the hook option
\* if defined, else the HIGGS_CONFIG value if defined, else the built-in
\* default; with no temperature in either the body carries 0.3.
C26_KnobPrecedence ==
  svc.stage = "sent" =>
    \A k \in Knobs :
      Get(svc.body, k) =
        Coalesce(Get(svc.hookOptions, k),
                 Coalesce(Get(svc.higgsConfig, k), Default(k)))

C28_FlagCoversInFlightWork ==
  (\E i \in Started : attempts[i].pc \in {"health", "tts", "decode"})
  => st.isGenerating

\* C29: every generateSpeech() call that entered InFlight eventually
\* lowers isGenerating, on the success path and on every failure path,
\* provided each awaited step eventually resolves or rejects: the step in
\* which a call leaves its last await, through finally, leaves
\* isGenerating false and the call's promise fulfilled, and eventually
\* every call that was started has taken that step.
C29_FlagEventuallyLowered ==
  /\ [][\A i \in Started :
          (/\ attempts[i].pc \in {"health", "tts", "decode"}
           /\ attempts'[i].pc \in {"reading", "done"})
          => ~st'.isGenerating /\ attempts'[i].promise = "fulfilled"]_vars
  /\ <>[](\A i \in Started : attempts[i].pc \in {"reading", "done"})

\* One call has left through catch and finally, another through the
\* success path and finally, and the flag is down.
C29_Witness ==
  \E i, j \in Started :
    /\ attempts[i].failure \in {"health", "transport", "http", "decode"}
    /\ attempts[j].pc = "reading"
    /\ attempts[j].promise = "fulfilled"
    /\ ~st.isGenerating

\* C30: in useHiggsAudio isServerAvailable reflects the most recent health
\* probe: a generation whose own probe returned true and which then fails
\* for another reason (an error status of the synthesis request, a decode
\* failure) leaves isServerAvailable true.
C30_AvailabilityTracksProbe ==
  [][\A i \in Started :
       (/\ hook = "higgs"
        /\ attempts[i].probe = "true"
        /\ attempts[i].pc \in {"tts", "decode"}
        /\ attempts'[i].failure \in {"http", "decode"})
       => st'.isServerAvailable]_vars

====
